---- MODULE Spec2Model ----
(***************************************************************************)
(* Asset inspection dashboard (streamlit_app.py): one run of the script    *)
(* from data loading through the sidebar filters, the KPI row, the three   *)
(* charts and the raw-data table.                                          *)
(*                                                                         *)
(* Time is counted in ticks: a timestamp t lies on calendar day            *)
(* t \div TicksPerDay and in calendar month DayOf(t) \div DaysPerMonth.     *)
(* A date (what st.date_input returns) is a day number; pd.to_datetime of  *)
(* a date is midnight of that day.  NaT is the missing timestamp.          *)
(***************************************************************************)
EXTENDS Integers, Sequences, FiniteSets, TLC

\* ---------------------------------------------------------------- bounds
TicksPerDay == 2
DaysPerMonth == 1
MaxTime == 5
MaxRows == 3
MaxDateRows == 2
MaxMixRows == 2

NaT == -1

DayOf(t) == t \div TicksPerDay
Midnight(d) == d * TicksPerDay
MonthOf(t) == DayOf(t) \div DaysPerMonth

Times == 0..MaxTime
Days == 0..DayOf(MaxTime)
LastDay == DayOf(MaxTime)

\* ------------------------------------------------- float64 arithmetic
\* pass_rate and fail_rate are numpy float64 values: a finite non-zero
\* value is m * 2^e with m a 53-bit integer written most significant bit
\* first (m[1] = 1); every operation rounds to nearest, ties to even.
Precision == 53
LimbBits == 12
LimbBase == 2 ^ LimbBits
DivLimbCount == 7

NaN == [kind |-> "nan", m |-> <<>>, e |-> 0]
FZero == [kind |-> "zero", m |-> <<>>, e |-> 0]
FUnset == [kind |-> "unset", m |-> <<>>, e |-> 0]

RECURSIVE IntBits(_)
IntBits(n) == IF n = 0 THEN <<>> ELSE Append(IntBits(n \div 2), n % 2)

Zeros(k) == IF k <= 0 THEN <<>> ELSE [i \in 1..k |-> 0]

FixedBits(v, w) == [i \in 1..w |-> (v \div (2 ^ (w - i))) % 2]

RECURSIVE BitsVal(_)
BitsVal(b) == IF b = <<>> THEN 0 ELSE 2 * BitsVal(SubSeq(b, 1, Len(b) - 1)) + b[Len(b)]

LeadingZeros(b) == Cardinality({i \in 1..Len(b) : \A j \in 1..i : b[j] = 0})

StripZeros(b) == SubSeq(b, LeadingZeros(b) + 1, Len(b))

PadLimbs(b, n) == Zeros(n * LimbBits - Len(b)) \o b

NumLimbs(b) == (Len(b) + LimbBits - 1) \div LimbBits

Limb(b, j) == BitsVal(SubSeq(b, Len(b) - LimbBits * (j + 1) + 1, Len(b) - LimbBits * j))

RECURSIVE AddLimbs(_, _, _, _)
AddLimbs(a, b, j, carry) ==
    IF j * LimbBits >= Len(a) THEN IntBits(carry)
    ELSE LET v == Limb(a, j) + Limb(b, j) + carry
         IN  AddLimbs(a, b, j + 1, v \div LimbBase) \o FixedBits(v % LimbBase, LimbBits)

AddBits(a, b) ==
    LET n == IF NumLimbs(a) > NumLimbs(b) THEN NumLimbs(a) ELSE NumLimbs(b)
    IN  AddLimbs(PadLimbs(a, n), PadLimbs(b, n), 0, 0)

RECURSIVE MulLimbs(_, _, _, _)
MulLimbs(a, c, j, carry) ==
    IF j * LimbBits >= Len(a) THEN IntBits(carry)
    ELSE LET v == Limb(a, j) * c + carry
         IN  MulLimbs(a, c, j + 1, v \div LimbBase) \o FixedBits(v % LimbBase, LimbBits)

MulBits(b, c) == MulLimbs(PadLimbs(b, NumLimbs(b)), c, 0, 0)

\* k limbs of the binary expansion of r / n (r < n), then a sticky bit
RECURSIVE DivLimbs(_, _, _)
DivLimbs(r, n, k) ==
    IF k = 0 THEN <<IF r = 0 THEN 0 ELSE 1>>
    ELSE FixedBits((r * LimbBase) \div n, LimbBits) \o DivLimbs((r * LimbBase) % n, n, k - 1)

\* the float64 nearest to bits * 2^e, ties to even
RoundBits(bits, e) ==
    LET b == StripZeros(bits)
        L == Len(b)
    IN  IF L = 0 THEN FZero
        ELSE IF L <= Precision
        THEN [kind |-> "num", m |-> b \o Zeros(Precision - L), e |-> e - (Precision - L)]
        ELSE LET keep == SubSeq(b, 1, Precision)
                 sticky == \E i \in (Precision + 2)..L : b[i] = 1
                 up == b[Precision + 1] = 1 /\ (sticky \/ keep[Precision] = 1)
                 inc == StripZeros(AddBits(keep, <<1>>))
             IN  IF ~up THEN [kind |-> "num", m |-> keep, e |-> e + (L - Precision)]
                 ELSE [kind |-> "num", m |-> SubSeq(inc, 1, Precision),
                       e |-> e + (L - Precision) + (Len(inc) - Precision)]

\* numpy.int64 / int: 0/0 is nan (a RuntimeWarning, no exception)
FDivInt(p, n) ==
    IF n = 0 THEN NaN
    ELSE IF p = 0 THEN FZero
    ELSE RoundBits(IntBits(p \div n) \o DivLimbs(p % n, n, DivLimbCount),
                   0 - (DivLimbCount * LimbBits + 1))

FMulInt(x, c) ==
    IF x.kind # "num" THEN x ELSE RoundBits(MulBits(x.m, c), x.e)

FAdd(x, y) ==
    IF x.kind = "nan" \/ y.kind = "nan" THEN NaN
    ELSE IF x.kind = "zero" THEN y
    ELSE IF y.kind = "zero" THEN x
    ELSE LET e == IF x.e < y.e THEN x.e ELSE y.e
         IN  RoundBits(AddBits(x.m \o Zeros(x.e - e), y.m \o Zeros(y.e - e)), e)

BitsLess(a, b) ==
    \E i \in 1..Len(a) : a[i] < b[i] /\ \A j \in 1..(i - 1) : a[j] = b[j]

FLess(x, y) ==
    /\ x.kind \in {"zero", "num"} /\ y.kind \in {"zero", "num"}
    /\ IF y.kind = "zero" THEN FALSE
       ELSE IF x.kind = "zero" THEN TRUE
       ELSE x.e < y.e \/ (x.e = y.e /\ BitsLess(x.m, y.m))

FLeq(x, y) ==
    /\ x.kind \in {"zero", "num"} /\ y.kind \in {"zero", "num"}
    /\ (x = y \/ FLess(x, y))

FromInt(n) == RoundBits(IntBits(n), 0)

\* ------------------------------------------------------------- datasets
AllColumns == {"asset_type", "site", "inspector", "status", "inspection_date", "due_date"}
DateColumns == {"inspection_date", "due_date"}
Statuses == {"Passed", "Failed", "Pending"}
NoValue == ""

SeqsUpTo(S, n) == UNION {[1..k -> S] : k \in 0..n}

Field(cols, c, values) == IF c \in cols THEN values ELSE {NoValue}
DateField(cols, c, values) == IF c \in cols THEN values ELSE {NaT}

RowSet(cols, assets, sitevals, insps, stats, idates, ddates) ==
    [asset_type : Field(cols, "asset_type", assets),
     site : Field(cols, "site", sitevals),
     inspector : Field(cols, "inspector", insps),
     status : Field(cols, "status", stats),
     inspection_date : DateField(cols, "inspection_date", idates),
     due_date : DateField(cols, "due_date", ddates)]

Frames(cols, rowset, n) == [columns : {cols}, rows : SeqsUpTo(rowset, n)]

\* any schema, at most one record
SchemaFamily ==
    UNION {Frames(cols, RowSet(cols, {"Pump"}, {"North"}, {"Ann"}, {"Passed"},
                               {Midnight(1)}, {NaT, Midnight(0)}), 1) :
           cols \in (SUBSET AllColumns) \ {{}}}

\* statuses vary
StatusFamily ==
    LET cols == AllColumns \ {"site", "inspector"}
    IN  Frames(cols, RowSet(cols, {"Pump"}, {}, {}, Statuses,
                            {Midnight(1)}, {Midnight(0)}), MaxRows)

\* inspection timestamps vary over the whole timeline, NaT included
DateFamily ==
    LET cols == AllColumns \ {"site", "inspector"}
    IN  Frames(cols, RowSet(cols, {"Pump"}, {}, {}, {"Passed"},
                            Times \cup {NaT}, {Midnight(1)}), MaxDateRows)

\* asset types, sites and inspection days vary together
MixFamily ==
    Frames(AllColumns, RowSet(AllColumns, {"Pump", "Valve"}, {"North", "South"},
                              {"Ann"}, {"Passed"},
                              {Midnight(0), Midnight(LastDay)}, {Midnight(1)}),
           MaxMixRows)

\* inspectors and inspection days vary together
InspectorFamily ==
    Frames(AllColumns, RowSet(AllColumns, {"Pump"}, {"North"},
                              {"Ann", "Bob"}, {"Passed", "Failed"},
                              {Midnight(0), Midnight(LastDay)}, {Midnight(1)}),
           MaxMixRows)

LoadableDatasets ==
    SchemaFamily \cup StatusFamily \cup DateFamily \cup MixFamily \cup InspectorFamily

EmptyFrame == [columns |-> {}, rows |-> <<>>]

\* ---------------------------------------------------- script state
VARIABLES
    pc,                   \* the statement block the run is about to execute
    fault,                \* the unhandled exception that ended the run, or ""
    loaded,               \* the frame returned by load_csv_data / load_sql_data
    df,                   \* the frame the script currently calls df
    asset_types,          \* the three multiselect results
    sites,
    inspectors,
    date_default,         \* [min_date, max_date] as shown by the date widget
    date_range,           \* what st.sidebar.date_input returned
    total_inspections,
    pass_rate,
    fail_rate,
    overdue_count,
    outcome_chart,        \* status -> number of records (pie chart)
    inspections_by_month, \* sequence of [month, count] (line chart)
    bar_chart             \* <<asset_type, status>> -> number of records

filters == <<asset_types, sites, inspectors, date_default, date_range>>
kpis == <<total_inspections, pass_rate, fail_rate, overdue_count>>
charts == <<outcome_chart, inspections_by_month, bar_chart>>
vars == <<pc, fault, loaded, df, filters, kpis, charts>>

NoChart == <<>>

Init ==
    /\ pc = "load"
    /\ fault = ""
    /\ loaded = EmptyFrame
    /\ df = EmptyFrame
    /\ asset_types = {}
    /\ sites = {}
    /\ inspectors = {}
    /\ date_default = <<>>
    /\ date_range = <<>>
    /\ total_inspections = 0
    /\ pass_rate = FUnset
    /\ fail_rate = FUnset
    /\ overdue_count = 0
    /\ outcome_chart = NoChart
    /\ inspections_by_month = <<>>
    /\ bar_chart = NoChart

\* ------------------------------------------------------ pandas helpers
Unique(rows, col) == {rows[i][col] : i \in 1..Len(rows)}

\* variant: the selection loses its first record
IsInDropFirst(rows, col, allowed) ==
    LET keep(r) == r[col] \in allowed
        kept == SelectSeq(rows, keep)
    IN  IF kept = <<>> THEN kept ELSE Tail(kept)

IsIn(rows, col, allowed) ==
    LET keep(r) == r[col] \in allowed
    IN  SelectSeq(rows, keep)

SetMin(S) == CHOOSE x \in S : \A y \in S : x <= y
SetMax(S) == CHOOSE x \in S : \A y \in S : x >= y

\* Series.min() / Series.max() skip NaT; both are NaT when nothing is left
KnownDates(rows) == {rows[i].inspection_date : i \in 1..Len(rows)} \ {NaT}

\* the widget shows the calendar dates of min_date and max_date
DefaultRange(rows) ==
    IF KnownDates(rows) = {} THEN <<NaT, NaT>>
    ELSE <<DayOf(SetMin(KnownDates(rows))), DayOf(SetMax(KnownDates(rows)))>>

\* what the user can leave in the date widget: nothing, a start only, or a
\* start and an end
UserRanges == UNION {[1..k -> Days] : k \in 0..2}

\* variant: the end of the interval is excluded
DateMaskOpenEnd(rows, dr) ==
    LET keep(r) == /\ r.inspection_date # NaT
                   /\ dr[1] # NaT
                   /\ dr[2] # NaT
                   /\ r.inspection_date >= Midnight(dr[1])
                   /\ r.inspection_date < Midnight(dr[2])
    IN  SelectSeq(rows, keep)

\* variant: records without a timestamp pass the date filter
DateMaskKeepNaT(rows, dr) ==
    LET keep(r) == \/ r.inspection_date = NaT
                   \/ /\ dr[1] # NaT
                      /\ dr[2] # NaT
                      /\ r.inspection_date >= Midnight(dr[1])
                      /\ r.inspection_date <= Midnight(dr[2])
    IN  SelectSeq(rows, keep)

\* a comparison with NaT is False
DateMask(rows, dr) ==
    LET keep(r) == /\ r.inspection_date # NaT
                   /\ dr[1] # NaT
                   /\ dr[2] # NaT
                   /\ r.inspection_date >= Midnight(dr[1])
                   /\ r.inspection_date <= Midnight(dr[2])
    IN  SelectSeq(rows, keep)

\* df = df[df[col].isin(selection)], applied only if the column exists
CategoricalFilter(frame, col, sel) ==
    IF col \in frame.columns
    THEN [frame EXCEPT !.rows = IsIn(frame.rows, col, sel)]
    ELSE frame

\* df = df[(inspection_date >= start) & (inspection_date <= end)], applied
\* only if the column exists
DateFilter(frame, dr) ==
    IF "inspection_date" \in frame.columns
    THEN [frame EXCEPT !.rows = DateMask(frame.rows, dr)]
    ELSE frame

\* lines 48-64 for given widget results
FilterPipeline(frame, F) ==
    DateFilter(
        CategoricalFilter(
            CategoricalFilter(
                CategoricalFilter(frame, "asset_type", F.asset_types),
                "site", F.sites),
            "inspector", F.inspectors),
        F.date_range)

\* variant: only the months that contain a record get a bin
MonthlyCountsObservedOnly(rows) ==
    LET months == {MonthOf(t) : t \in KnownDates(rows)}
        Nth(k) == CHOOSE mo \in months : Cardinality({x \in months : x < mo}) = k - 1
        InMonth(mo) == LET hit(r) == r.inspection_date # NaT
                                     /\ MonthOf(r.inspection_date) = mo
                       IN  Len(SelectSeq(rows, hit))
    IN  [k \in 1..Cardinality(months) |-> [month |-> Nth(k), count |-> InMonth(Nth(k))]]

\* df.resample('M', on='inspection_date').size(): one bin per calendar
\* month from the first to the last month of the data; records without a
\* timestamp fall in no bin
MonthlyCounts(rows) ==
    IF KnownDates(rows) = {} THEN <<>>
    ELSE LET first == MonthOf(SetMin(KnownDates(rows)))
             last == MonthOf(SetMax(KnownDates(rows)))
             InMonth(mo) == LET hit(r) == r.inspection_date # NaT
                                          /\ MonthOf(r.inspection_date) = mo
                            IN  Len(SelectSeq(rows, hit))
         IN  [k \in 1..(last - first + 1) |->
                 [month |-> first + k - 1, count |-> InMonth(first + k - 1)]]

\* px.pie(df, names="status"): one slice per status value that occurs
StatusBreakdown(rows) ==
    [s \in Unique(rows, "status") |->
        LET hit(r) == r.status = s IN Len(SelectSeq(rows, hit))]

\* df.groupby(['asset_type', 'status']).size(): the pairs that occur
StatusByAssetType(rows) ==
    [g \in {<<rows[i].asset_type, rows[i].status>> : i \in 1..Len(rows)} |->
        LET hit(r) == r.asset_type = g[1] /\ r.status = g[2] IN Len(SelectSeq(rows, hit))]

IsPassed(r) == r.status = "Passed"
\* variant: everything that did not pass counts as failed
IsNotPassed(r) == r.status # "Passed"
IsFailed(r) == r.status = "Failed"
\* NaT on either side compares False
IsOverdue(r) == r.due_date # NaT /\ r.inspection_date # NaT
                /\ r.due_date < r.inspection_date

\* (df["status"] == value).sum() / total_inspections * 100
Rate(count, total) == FMulInt(FDivInt(count, total), 100)

\* --------------------------------------------------------- the script
Raise(err) ==
    /\ pc' = "fault"
    /\ fault' = err

\* lines 26-41, a source was given: load_csv_data / load_sql_data.
\* read_csv raises when a parse_dates column is not in the file; read_sql
\* skips parse_dates columns the table does not have.
Load ==
    /\ pc = "load"
    /\ \E data_source \in {"CSV", "SQL Database"}, ds \in LoadableDatasets :
          IF data_source = "CSV" /\ ~(DateColumns \subseteq ds.columns)
          THEN /\ Raise("ValueError: parse_dates")
               /\ UNCHANGED <<loaded, df>>
          ELSE /\ loaded' = ds
               /\ df' = ds
               /\ pc' = "asset_type"
               /\ fault' = fault
    /\ UNCHANGED <<filters, kpis, charts>>

\* lines 30-33 and 38-41, no file uploaded / no path typed: st.stop()
Stop ==
    /\ pc = "load"
    /\ pc' = "stopped"
    /\ UNCHANGED <<fault, loaded, df, filters, kpis, charts>>

\* lines 48-50
FilterAssetType ==
    /\ pc = "asset_type"
    /\ pc' = "site"
    /\ IF "asset_type" \in df.columns
       THEN \E sel \in SUBSET Unique(df.rows, "asset_type") :
               /\ asset_types' = sel
               /\ df' = CategoricalFilter(df, "asset_type", sel)
       ELSE UNCHANGED <<asset_types, df>>
    /\ UNCHANGED <<fault, loaded, sites, inspectors, date_default, date_range, kpis, charts>>

\* lines 52-54
FilterSite ==
    /\ pc = "site"
    /\ pc' = "inspector"
    /\ IF "site" \in df.columns
       THEN \E sel \in SUBSET Unique(df.rows, "site") :
               /\ sites' = sel
               /\ df' = CategoricalFilter(df, "site", sel)
       ELSE UNCHANGED <<sites, df>>
    /\ UNCHANGED <<fault, loaded, asset_types, inspectors, date_default, date_range, kpis, charts>>

\* lines 56-58
FilterInspector ==
    /\ pc = "inspector"
    /\ pc' = "date"
    /\ IF "inspector" \in df.columns
       THEN \E sel \in SUBSET Unique(df.rows, "inspector") :
               /\ inspectors' = sel
               /\ df' = CategoricalFilter(df, "inspector", sel)
       ELSE UNCHANGED <<inspectors, df>>
    /\ UNCHANGED <<fault, loaded, asset_types, sites, date_default, date_range, kpis, charts>>

\* variant: the range of the loaded frame
DateDefaultRowsLoaded == loaded.rows

\* the rows min_date and max_date are taken from (line 62)
DateDefaultRows == df.rows

\* lines 61-64.  The widget returns its default or what the user picked;
\* a selection with fewer than two dates makes date_range[1] (or [0]) an
\* IndexError.
FilterDate ==
    /\ pc = "date"
    /\ IF "inspection_date" \in df.columns
       THEN /\ date_default' = DefaultRange(DateDefaultRows)
            /\ \E dr \in {date_default'} \cup UserRanges :
                  /\ date_range' = dr
                  /\ IF Len(dr) < 2
                     THEN /\ Raise("IndexError: date_range")
                          /\ df' = df
                     ELSE /\ df' = DateFilter(df, dr)
                          /\ pc' = "kpis"
                          /\ fault' = fault
       ELSE /\ pc' = "kpis"
            /\ UNCHANGED <<fault, df, date_default, date_range>>
    /\ UNCHANGED <<loaded, asset_types, sites, inspectors, kpis, charts>>

\* line 63 when min_date and max_date are NaT (no record reaches the date
\* filter with a timestamp): the widget may reject the default instead of
\* returning it
DateInputRaises ==
    /\ pc = "date"
    /\ "inspection_date" \in df.columns
    /\ DefaultRange(DateDefaultRows) = <<NaT, NaT>>
    /\ date_default' = <<NaT, NaT>>
    /\ Raise("StreamlitAPIException: date_input")
    /\ UNCHANGED <<loaded, df, asset_types, sites, inspectors, date_range, kpis, charts>>

\* lines 68-77
ComputeKPIs ==
    /\ pc = "kpis"
    /\ IF "status" \notin df.columns
       THEN /\ Raise("KeyError: status")
            /\ total_inspections' = Len(df.rows)
            /\ UNCHANGED <<pass_rate, fail_rate, overdue_count>>
       ELSE IF "due_date" \notin df.columns
       THEN /\ Raise("KeyError: due_date")
            /\ total_inspections' = Len(df.rows)
            /\ pass_rate' = Rate(Len(SelectSeq(df.rows, IsPassed)), Len(df.rows))
            /\ fail_rate' = Rate(Len(SelectSeq(df.rows, IsFailed)), Len(df.rows))
            /\ UNCHANGED overdue_count
       ELSE IF "inspection_date" \notin df.columns
       THEN /\ Raise("KeyError: inspection_date")
            /\ total_inspections' = Len(df.rows)
            /\ pass_rate' = Rate(Len(SelectSeq(df.rows, IsPassed)), Len(df.rows))
            /\ fail_rate' = Rate(Len(SelectSeq(df.rows, IsFailed)), Len(df.rows))
            /\ UNCHANGED overdue_count
       ELSE /\ total_inspections' = Len(df.rows)
            /\ pass_rate' = Rate(Len(SelectSeq(df.rows, IsPassed)), Len(df.rows))
            /\ fail_rate' = Rate(Len(SelectSeq(df.rows, IsFailed)), Len(df.rows))
            /\ overdue_count' = Len(SelectSeq(df.rows, IsOverdue))
            /\ pc' = "charts"
            /\ fault' = fault
    /\ UNCHANGED <<loaded, df, filters, charts>>

\* lines 81-94: pie, line and bar chart in this order; the group-by of the
\* bar chart reads asset_type unconditionally
RenderCharts ==
    /\ pc = "charts"
    /\ outcome_chart' = StatusBreakdown(df.rows)
    /\ inspections_by_month' = MonthlyCounts(df.rows)
    /\ IF "asset_type" \notin df.columns
       THEN /\ Raise("KeyError: asset_type")
            /\ UNCHANGED bar_chart
       ELSE /\ bar_chart' = StatusByAssetType(df.rows)
            /\ pc' = "table"
            /\ fault' = fault
    /\ UNCHANGED <<loaded, df, filters, kpis>>

\* lines 97-98
ShowRawData ==
    /\ pc = "table"
    /\ pc' = "done"
    /\ UNCHANGED <<fault, loaded, df, filters, kpis, charts>>

Next ==
    \/ Load
    \/ Stop
    \/ FilterAssetType
    \/ FilterSite
    \/ FilterInspector
    \/ FilterDate
    \/ DateInputRaises
    \/ ComputeKPIs
    \/ RenderCharts
    \/ ShowRawData

Spec == Init /\ [][Next]_vars

\* ------------------------------------------------------------ properties
\* the run has just left the filters / the KPI row / the charts
Filtered == pc = "kpis"
KPIsShown == pc = "charts"
ChartsShown == pc = "table"

FilterState ==
    [asset_types |-> asset_types, sites |-> sites,
     inspectors |-> inspectors, date_range |-> date_range]

IsNumber(x) == x.kind \in {"zero", "num"}

\* C1: when the filters leave no record of a loaded dataset, pass_rate and
\* fail_rate are defined numbers: no division by zero is performed and no
\* NaN is shown.
C1_EmptyKPIsDefined ==
    (KPIsShown /\ total_inspections = 0 /\ loaded.rows # <<>> /\ date_default # <<NaT, NaT>>)
        => IsNumber(pass_rate) /\ IsNumber(fail_rate)

\* C2: a dataset without the asset_type column never makes the run end in
\* an exception of the asset-type aggregate; the bar chart is just left out.
C2_MissingAssetTypeCompletes ==
    ("asset_type" \notin loaded.columns /\ pc = "fault") => fault # "KeyError: asset_type"

MissingColumnFaults ==
    {"KeyError: status", "KeyError: due_date", "KeyError: inspection_date"}

\* C6: a missing status, inspection_date or due_date column never ends the
\* run in an unhandled exception of the computation that needs it.
C6_MissingColumnReported ==
    pc = "fault" => fault \notin MissingColumnFaults

OnDays(rows, start, end) ==
    LET keep(r) == /\ r.inspection_date # NaT
                   /\ DayOf(r.inspection_date) >= start
                   /\ DayOf(r.inspection_date) <= end
    IN  SelectSeq(rows, keep)

\* C7: the date filter keeps exactly the records whose inspection_date falls
\* on a calendar day of [start, end], both days included whatever the time
\* of day (and so keeps nothing when start > end).
C7_DateFilterCalendarInclusive ==
    [][(/\ pc = "date"
        /\ pc' = "kpis"
        /\ "inspection_date" \in df.columns
        /\ date_range' \in [1..2 -> Days])
       => df'.rows = OnDays(df.rows, date_range'[1], date_range'[2])]_vars

DatedIndices == {i \in 1..Len(df.rows) : df.rows[i].inspection_date # NaT}
MonthsWithRecords == {MonthOf(df.rows[i].inspection_date) : i \in DatedIndices}
RecordsInMonth(mo) ==
    Cardinality({i \in DatedIndices : MonthOf(df.rows[i].inspection_date) = mo})
EmittedMonths == {inspections_by_month[i].month : i \in 1..Len(inspections_by_month)}
Chronological ==
    \A i \in 1..(Len(inspections_by_month) - 1) :
        inspections_by_month[i].month < inspections_by_month[i + 1].month
CountsMatch ==
    \A i \in 1..Len(inspections_by_month) :
        inspections_by_month[i].count = RecordsInMonth(inspections_by_month[i].month)

\* C3 as stated: the monthly series has exactly the months that contain a
\* filtered record, in chronological order, and no entry with count zero.
C3_OnlyObservedMonths ==
    ChartsShown =>
        /\ Chronological
        /\ CountsMatch
        /\ EmittedMonths = MonthsWithRecords
        /\ \A i \in 1..Len(inspections_by_month) : inspections_by_month[i].count > 0

\* C3 as amended: the monthly series has one entry for every calendar month
\* from the first to the last month that contains a filtered record, in
\* chronological order, each with the number of records of that month, which
\* is zero for a month in between that has none.
C3_EveryMonthOfTheSpan ==
    ChartsShown =>
        /\ Chronological
        /\ CountsMatch
        /\ \A mo \in 0..MonthOf(MaxTime) :
              mo \in EmittedMonths <=>
                 /\ \E lo \in MonthsWithRecords : lo <= mo
                 /\ \E hi \in MonthsWithRecords : hi >= mo

C3_GapMonthEmitted ==
    /\ ChartsShown
    /\ \E i \in 2..(Len(inspections_by_month) - 1) :
          /\ inspections_by_month[i].count = 0
          /\ inspections_by_month[i - 1].count > 0
          /\ inspections_by_month[i + 1].count > 0

RECURSIVE IsSubSeq(_, _)
IsSubSeq(a, b) ==
    IF a = <<>> THEN TRUE
    ELSE IF b = <<>> THEN FALSE
    ELSE IF a[1] = b[1] THEN IsSubSeq(Tail(a), Tail(b))
    ELSE IsSubSeq(a, Tail(b))

\* C4: the filtered frame has the columns of the loaded one, its records are
\* a sub-collection of the loaded records (no more of them, same order), and
\* running the filters again on it with the same selections changes nothing.
C4_FilterSubsetIdempotent ==
    Filtered =>
        /\ df.columns = loaded.columns
        /\ Len(df.rows) <= Len(loaded.rows)
        /\ IsSubSeq(df.rows, loaded.rows)
        /\ df = FilterPipeline(loaded, FilterState)
        /\ FilterPipeline(df, FilterState) = df

C4_SomeRecordsFilteredOut ==
    /\ Filtered
    /\ "asset_type" \in df.columns
    /\ "inspection_date" \in df.columns
    /\ Len(df.rows) > 0
    /\ Len(df.rows) < Len(loaded.rows)

FilterNames == {"asset_type", "site", "inspector", "inspection_date"}
FilterOrders ==
    {o \in [1..4 -> FilterNames] : \A i, j \in 1..4 : o[i] = o[j] => i = j}

ApplyFilter(name, frame) ==
    CASE name = "asset_type" -> CategoricalFilter(frame, "asset_type", asset_types)
      [] name = "site" -> CategoricalFilter(frame, "site", sites)
      [] name = "inspector" -> CategoricalFilter(frame, "inspector", inspectors)
      [] name = "inspection_date" -> DateFilter(frame, date_range)

InOrder(o) == ApplyFilter(o[4], ApplyFilter(o[3], ApplyFilter(o[2], ApplyFilter(o[1], loaded))))

Retained(r) ==
    /\ "asset_type" \in loaded.columns => r.asset_type \in asset_types
    /\ "site" \in loaded.columns => r.site \in sites
    /\ "inspector" \in loaded.columns => r.inspector \in inspectors
    /\ "inspection_date" \in loaded.columns =>
          /\ r.inspection_date # NaT
          /\ date_range[1] # NaT
          /\ date_range[2] # NaT
          /\ Midnight(date_range[1]) <= r.inspection_date
          /\ r.inspection_date <= Midnight(date_range[2])

\* C5: for the selections made, the four filters give the same records in
\* whatever order they are applied: the records that satisfy every
\* predicate whose column is present.
C5_FiltersCommute ==
    Filtered =>
        /\ df.rows = SelectSeq(loaded.rows, Retained)
        /\ \A o \in FilterOrders : InOrder(o) = df

C5_SeveralFiltersNarrow ==
    /\ Filtered
    /\ AllColumns \subseteq df.columns
    /\ asset_types # Unique(loaded.rows, "asset_type")
    /\ sites # Unique(loaded.rows, "site")
    /\ date_range # date_default
    /\ Len(date_range) = 2
    /\ df.rows # <<>>

RECURSIVE SumCounts(_)
SumCounts(series) ==
    IF series = <<>> THEN 0 ELSE series[1].count + SumCounts(Tail(series))

\* C8: the counts of the monthly series add up to total_inspections.
C8_MonthlyCountsSumToTotal ==
    ChartsShown => SumCounts(inspections_by_month) = total_inspections

C8_UndatedRecordLoaded ==
    /\ ChartsShown
    /\ total_inspections >= 1
    /\ \E i \in 1..Len(loaded.rows) : loaded.rows[i].inspection_date = NaT

Hundred == FromInt(100)
\* the float64 values two units in the last place below and above 100
HundredLow ==
    [kind |-> "num", m |-> <<1, 1, 0, 0, 0, 1, 1>> \o [i \in 1..44 |-> 1] \o <<1, 0>>,
     e |-> Hundred.e]
HundredHigh ==
    [kind |-> "num", m |-> <<1, 1, 0, 0, 1, 0, 0>> \o [i \in 1..44 |-> 0] \o <<1, 0>>,
     e |-> Hundred.e]

RateSum == FAdd(pass_rate, fail_rate)
IsPercentage(x) == FLeq(FZero, x) /\ FLeq(x, Hundred)
OnlyPassedOrFailed ==
    \A i \in 1..Len(df.rows) : df.rows[i].status \in {"Passed", "Failed"}

\* C9 as stated: with at least one record, pass_rate and fail_rate lie in
\* [0, 100], their sum is at most 100 and it is 100 exactly when every
\* status is "Passed" or "Failed".
C9_RatesSumExactly ==
    (KPIsShown /\ total_inspections > 0) =>
        /\ IsPercentage(pass_rate)
        /\ IsPercentage(fail_rate)
        /\ FLeq(RateSum, Hundred)
        /\ RateSum = Hundred <=> OnlyPassedOrFailed

\* C9 as amended: with at least one record, pass_rate and fail_rate lie in
\* [0, 100]; their sum is below 100 when some status is neither "Passed"
\* nor "Failed", and otherwise it is 100 up to float64 rounding (within
\* 2^-45 of 100, on either side).
C9_RatesSumWithinRounding ==
    (KPIsShown /\ total_inspections > 0) =>
        /\ IsPercentage(pass_rate)
        /\ IsPercentage(fail_rate)
        /\ IF OnlyPassedOrFailed
           THEN FLeq(HundredLow, RateSum) /\ FLeq(RateSum, HundredHigh)
           ELSE FLess(RateSum, Hundred)

C9_RoundedSum ==
    /\ KPIsShown
    /\ total_inspections > 0
    /\ OnlyPassedOrFailed
    /\ RateSum # Hundred

\* C10 as stated: whenever the date widget has a default interval, it is the
\* first and last inspection day of the loaded data, whatever the
\* categorical selections.
C10_DefaultFromLoadedData ==
    date_default \notin {<<>>, <<NaT, NaT>>} => date_default = DefaultRange(loaded.rows)

SelectedByCategory(r) ==
    /\ "asset_type" \in loaded.columns => r.asset_type \in asset_types
    /\ "site" \in loaded.columns => r.site \in sites
    /\ "inspector" \in loaded.columns => r.inspector \in inspectors

SelectedDays ==
    {DayOf(loaded.rows[i].inspection_date) :
        i \in {j \in 1..Len(loaded.rows) :
                  /\ SelectedByCategory(loaded.rows[j])
                  /\ loaded.rows[j].inspection_date # NaT}}

\* C10 as amended: the default of the date widget is the first and last
\* inspection day among the loaded records that the categorical selections
\* retain (NaT when there is none), so narrowing a categorical filter can
\* change the default interval.
C10_DefaultFromSelectedData ==
    date_default # <<>> =>
        IF SelectedDays = {} THEN date_default = <<NaT, NaT>>
        ELSE /\ date_default[1] \in SelectedDays
             /\ date_default[2] \in SelectedDays
             /\ \A d \in SelectedDays : date_default[1] <= d /\ d <= date_default[2]

C10_NarrowedDefault ==
    /\ date_default # <<>>
    /\ SelectedDays # {}
    /\ date_default # DefaultRange(loaded.rows)

====
